---- MODULE Spec2Model ----
(***************************************************************************)
(* Model of plugins/search-react/src/components/SearchBar/SearchBar.tsx:   *)
(* the debounced SearchBarBase and the context-backed SearchBarInput /     *)
(* SearchBarAutocomplete built on it.                                      *)
(*                                                                         *)
(* Time is discrete.  A debounce timer is a single cancellable handle: -1  *)
(* when idle, otherwise the number of ticks left before it is due.  Time   *)
(* does not advance past a due timer: the timer callback runs first.       *)
(* Two specifications share the component operators:                       *)
(*   Spec     one SearchBarBase driven directly by a caller                *)
(*   SpecCtx  NumBars SearchBarInput bars under one shared search context  *)
(*   SpecAuto one SearchBarAutocomplete with its own search context        *)
(***************************************************************************)
EXTENDS Integers, Sequences, FiniteSets, TLC

\* ---- bounds -------------------------------------------------------------
DebounceTicks == 1      \* debounceTime, in ticks
MaxLen == 2             \* longest text typed into the SearchBarBase of Spec
MaxTermLen == 1         \* longest text typed or supplied under SpecCtx
NumBars == 2            \* bars mounted under one search context

Text == <<"c", "ca", "cat", "cats">>
Strings == {""} \cup {Text[i] : i \in 1..MaxLen}
Terms == {""} \cup {Text[i] : i \in 1..MaxTermLen}
undefined == "<undefined>"          \* an absent prop / JS undefined
Values == Strings \cup {undefined}
Keys == {"Enter", "a"}
Bars == 1..NumBars
Idle == -1

Min(a, b) == IF a < b THEN a ELSE b
Call(cb, arg) == [cb |-> cb, arg |-> arg]
Count(o, cb) == Cardinality({k \in DOMAIN o : o[k].cb = cb})
Args(o, cb) == {o[k].arg : k \in {j \in DOMAIN o : o[j].cb = cb}}

\* ---- SearchBarBase ------------------------------------------------------
\* A bar is [defaultValue: the value prop, value: the local state,
\*           timer: the useDebounce timeout handle].

\* useDebounce(fn, debounceTime, [value]): a change of the dependency (and
\* the mount) clears the pending timeout and sets a new one.
useDebounceZero(b) == [b EXCEPT !.timer = 0]
useDebounce(b) == [b EXCEPT !.timer = DebounceTicks]

\* setValue of useState: an identical value bails out without a render, a
\* new value renders and so re-runs the useDebounce effect.
setValueNoReset(b, v) == [b EXCEPT !.value = v]
setValue(b, v) == IF v = b.value THEN b ELSE useDebounce([b EXCEPT !.value = v])

\* useEffect(() => setValue(prev => prev !== defaultValue ? defaultValue : prev),
\*           [defaultValue]): runs when a render brings another defaultValue
syncKeepsLocal(b, dv) == [b EXCEPT !.defaultValue = dv]
syncRearms(b, dv) == useDebounce([b EXCEPT !.defaultValue = dv, !.value = dv])
syncDefaultValue(b, dv) ==
    LET prevValue == b.value
    IN  IF dv = b.defaultValue THEN b
        ELSE setValue([b EXCEPT !.defaultValue = dv],
                      IF prevValue # dv THEN dv ELSE prevValue)

\* useState(defaultValue) followed by the mount effects
SearchBarBaseUnarmed(dv) == [defaultValue |-> dv, value |-> dv, timer |-> Idle]
SearchBarBase(dv) == useDebounce([defaultValue |-> dv, value |-> dv, timer |-> Idle])

\* <InputBase value={value} />: the text shown; an undefined value shows nothing
displayed(b) == IF b.value = undefined THEN "" ELSE b.value

\* handleChange: setValue(e.target.value)
handleChangeNoArm(b, v) == [b EXCEPT !.value = v]
handleChange(b, v) == setValue(b, v)

\* the debounced function () => onChange(value)
debouncedDefault(b) == <<Call("onChange", b.defaultValue)>>
debounced(b) == <<Call("onChange", b.value)>>

\* handleClear: onChange('')
handleClear == <<Call("onChange", "")>>

\* handleKeyDown: if (onKeyDown) onKeyDown(e); if (onSubmit && e.key === 'Enter') onSubmit()
handleKeyDownAnyKey(p, key) ==
    (IF p.onKeyDown THEN <<Call("onKeyDown", key)>> ELSE <<>>) \o
    (IF p.onSubmit THEN <<Call("onSubmit", undefined)>> ELSE <<>>)
handleKeyDownFlush(p, key) ==
    (IF p.onKeyDown THEN <<Call("onKeyDown", key)>> ELSE <<>>) \o
    (IF p.onSubmit /\ key = "Enter" THEN <<Call("onSubmit", undefined)>> ELSE <<>>) \o
    (IF key = "Enter" THEN <<Call("onChange", "")>> ELSE <<>>)
handleKeyDown(p, key) ==
    (IF p.onKeyDown THEN <<Call("onKeyDown", key)>> ELSE <<>>) \o
    (IF p.onSubmit /\ key = "Enter" THEN <<Call("onSubmit", undefined)>> ELSE <<>>)

\* The optional props of SearchBarBaseProps that the handlers look at.
PropSets == [onSubmit : BOOLEAN, onKeyDown : BOOLEAN, onClear : BOOLEAN,
             clearButton : BOOLEAN]

\* ---- SearchBarInput / SearchBarAutocomplete ------------------------------
\* JS truthiness and String() on the values of the model
truthy(v) == v # "" /\ v # undefined
String(v) == IF v = undefined THEN "undefined" ELSE v

\* ({ value: defaultValue = '', onChange, ...rest }) of SearchBarInput
withDefault(v) == IF v = undefined THEN "" ELSE v

\* useSearchBarState: useEffect(() => { if (defaultValue) setValue(String(defaultValue)) },
\*                              [defaultValue, setValue]), setValue being setTerm
useSearchBarStateAlways(defaultValue) == <<Call("setTerm", String(defaultValue))>>
useSearchBarState(defaultValue) ==
    IF truthy(defaultValue) THEN <<Call("setTerm", String(defaultValue))>> ELSE <<>>

\* handleChange of SearchBarInput, handleInputChange of SearchBarAutocomplete
inputHandleChangeBoth(p, newValue) ==
    (IF p.onChange THEN <<Call("onChange", newValue)>> ELSE <<>>) \o
    <<Call("setTerm", newValue)>>
inputHandleChange(p, newValue) ==
    IF p.onChange THEN <<Call("onChange", newValue)>> ELSE <<Call("setTerm", newValue)>>

\* <SearchBarBase value={value} onChange={handleChange} />: every onChange call
\* of the base bar goes through the input's handleChange
forward(p, o) ==
    IF o = <<>> THEN <<>> ELSE inputHandleChange(p, o[1].arg)

\* the shared term after the setTerm calls of o, in order
RECURSIVE applySetTerm(_, _)
applySetTerm(t, o) ==
    IF o = <<>> THEN t
    ELSE applySetTerm(IF o[1].cb = "setTerm" THEN o[1].arg ELSE t, Tail(o))

\* every mounted bar renders its SearchBarBase with value={term}
renderNone(bs, m, t) == bs
render(bs, m, t) ==
    [j \in DOMAIN bs |-> IF j \in m THEN syncDefaultValue(bs[j], t) ELSE bs[j]]

\* a bar that is not mounted (yet)
Unmounted == [defaultValue |-> undefined, value |-> undefined, timer |-> Idle]

\* handleInputChange of SearchBarAutocomplete
handleInputChange(a, newValue) ==
    IF a.onChange THEN <<Call("onChange", newValue)>> ELSE <<Call("setTerm", newValue)>>

\* <SearchBarInput onChange={handleInputChange} />: the inner input always has
\* an onChange, which is handleInputChange; the other callbacks of the
\* inputProps (onSubmit, onKeyDown) are the caller's own
RECURSIVE autoForward(_, _)
autoForward(a, o) ==
    IF o = <<>> THEN <<>>
    ELSE (IF o[1].cb = "onChange"
          THEN handleInputChange(a, forward([onChange |-> TRUE], <<o[1]>>)[1].arg)
          ELSE <<o[1]>>) \o autoForward(a, Tail(o))

\* endAdornment={loading ? <CircularProgress /> : inputEndAdornment}
autocompleteEndAdornment(loading, inputEndAdornment) ==
    IF loading THEN "CircularProgress" ELSE inputEndAdornment

\* endAdornment={clearButton ? endAdornment : defaultEndAdornment} of SearchBarBase
baseEndAdornment(clearButton, defaultEndAdornment) ==
    IF clearButton THEN "ClearButton" ELSE defaultEndAdornment

\* the trailing decoration of the input a SearchBarAutocomplete renders
trailing(a) ==
    baseEndAdornment(a.clearButton, autocompleteEndAdornment(a.loading, a.endAdornment))

\* loading and the inputProps of a SearchBarAutocomplete (clearButton already
\* defaulted to true by SearchBarBase)
AutoProps == [loading : BOOLEAN, clearButton : BOOLEAN,
              endAdornment : {undefined, "Icon"}, onChange : BOOLEAN]

VARIABLES
    bar,             \* Spec: the SearchBarBase
    props,           \* Spec: which optional props the caller supplied
    term,            \* SpecCtx: the term of the shared search context
    mounted,         \* SpecCtx: the SearchBarInput bars mounted so far
    bars,            \* SpecCtx: the SearchBarBase inside each SearchBarInput
    inputs,          \* SpecCtx: whether the caller gave the bar an onChange
    auto,            \* SpecAuto: loading and inputProps of the SearchBarAutocomplete
    stopped,         \* SpecQuiet: the users have stopped acting
    out,             \* callbacks the component code invoked in the last step, in order
    last,            \* Spec: the last step, [op, arg]
    sinceEmit,       \* ticks since the last onChange call (capped)
    sinceFire,       \* ticks since the last timer-driven onChange call (capped)
    fireGap,         \* ticks between the last two timer-driven calls (capped)
    sinceEdit,       \* ticks since the last keystroke (capped)
    emitsSinceEdit,  \* onChange calls since the last keystroke (capped)
    editPending,     \* the local value is a keystroke's, not yet emitted
    quiet,           \* no clear / overriding value change since the last keystroke
    superseded,      \* value of the edit that the last keystroke superseded
    discarded,       \* the last value change overrode a pending edit
    clearedPending,  \* clear was clicked on a pending edit; no edit or value change since
    armedBy,         \* what armed the timer last: "mount", "value" or "edit"
    firesSinceArm    \* timer-driven onChange calls since the timer was armed (capped)

base == <<bar, props>>
ctx == <<term, mounted, bars, inputs>>
aux == <<auto, stopped>>
NoAuto == [loading |-> FALSE, clearButton |-> TRUE, endAdornment |-> undefined,
           onChange |-> FALSE]
hist == <<sinceEmit, sinceFire, fireGap, sinceEdit, emitsSinceEdit,
          editPending, quiet, superseded, discarded, clearedPending, armedBy,
          firesSinceArm>>
vars == <<bar, props, term, mounted, bars, inputs, auto, stopped, out, last, hist>>

Far == DebounceTicks + 1      \* cap of the emission clocks
Long == DebounceTicks + 1     \* cap of sinceEdit

HistInit ==
    /\ sinceEmit = Far /\ sinceFire = Far /\ fireGap = Far
    /\ sinceEdit = Long /\ emitsSinceEdit = 0
    /\ editPending = FALSE /\ quiet = FALSE
    /\ superseded = undefined /\ discarded = FALSE
    /\ clearedPending = FALSE /\ armedBy = "mount" /\ firesSinceArm = 0

\* bookkeeping of one step that invoked the callbacks o; byTimer: from the timer
Emit(o, byTimer) ==
    LET n == Count(o, "onChange")
    IN  /\ out' = o
        /\ sinceEmit' = IF n > 0 THEN 0 ELSE sinceEmit
        /\ sinceFire' = IF n > 0 /\ byTimer THEN 0 ELSE sinceFire
        /\ fireGap' = IF n > 0 /\ byTimer THEN sinceFire ELSE fireGap
        /\ emitsSinceEdit' = Min(emitsSinceEdit + n, 3)

Init ==
    /\ \E dv \in Values : bar = SearchBarBase(dv)
    /\ props \in PropSets
    /\ term = "" /\ mounted = {} /\ bars = <<>> /\ inputs = <<>>
    /\ auto = NoAuto /\ stopped = FALSE
    /\ out = <<>>
    /\ last = [op |-> "mount", arg |-> undefined]
    /\ HistInit

\* The user types: the input's change event carries a text other than the
\* one displayed.
Edit(v) ==
    /\ v # displayed(bar)
    /\ bar' = handleChange(bar, v)
    /\ last' = [op |-> "edit", arg |-> v]
    /\ out' = <<>>
    /\ sinceEdit' = 0 /\ emitsSinceEdit' = 0
    /\ editPending' = TRUE /\ quiet' = TRUE
    /\ superseded' = IF editPending THEN bar.value ELSE undefined
    /\ discarded' = FALSE /\ clearedPending' = FALSE
    /\ armedBy' = "edit" /\ firesSinceArm' = 0
    /\ UNCHANGED <<ctx, aux>>
    /\ UNCHANGED <<props, sinceEmit, sinceFire, fireGap>>

\* The debounce timer is due: () => onChange(value)
Fire ==
    /\ bar.timer = 0
    /\ bar' = [bar EXCEPT !.timer = Idle]
    /\ last' = [op |-> "fire", arg |-> undefined]
    /\ Emit(debounced(bar), TRUE)
    /\ editPending' = FALSE /\ discarded' = FALSE
    /\ firesSinceArm' = Min(firesSinceArm + 1, 2)
    /\ UNCHANGED <<ctx, aux>>
    /\ UNCHANGED <<props, sinceEdit, quiet, superseded, clearedPending, armedBy>>

\* The user clicks the Clear button (rendered when clearButton is set)
Clear ==
    /\ props.clearButton
    /\ last' = [op |-> "clear", arg |-> undefined]
    /\ Emit(handleClear, FALSE)
    /\ quiet' = FALSE /\ discarded' = FALSE
    /\ clearedPending' = (clearedPending \/ editPending)
    /\ UNCHANGED <<ctx, aux>>
    /\ UNCHANGED <<bar, props, sinceFire, fireGap, sinceEdit, editPending, superseded,
                   armedBy, firesSinceArm>>

\* The caller renders the bar with another value prop
ExternalChange(dv) ==
    /\ dv # bar.defaultValue
    /\ bar' = syncDefaultValue(bar, dv)
    /\ last' = [op |-> "value", arg |-> dv]
    /\ out' = <<>>
    /\ discarded' = (editPending /\ bar.value # dv)
    /\ editPending' = (editPending /\ bar.value = dv)
    /\ quiet' = (quiet /\ bar.value = dv)
    /\ superseded' = IF bar.value = dv THEN superseded ELSE undefined
    /\ clearedPending' = FALSE
    /\ armedBy' = IF bar.value = dv THEN armedBy ELSE "value"
    /\ firesSinceArm' = IF bar.value = dv THEN firesSinceArm ELSE 0
    /\ UNCHANGED <<ctx, aux>>
    /\ UNCHANGED <<props, sinceEmit, sinceFire, fireGap, sinceEdit, emitsSinceEdit>>

KeyDown(key) ==
    /\ last' = [op |-> "keyDown", arg |-> key]
    /\ out' = handleKeyDown(props, key)
    /\ discarded' = FALSE
    /\ UNCHANGED <<ctx, aux>>
    /\ UNCHANGED <<bar, props, sinceEmit, sinceFire, fireGap, sinceEdit,
                   emitsSinceEdit, editPending, quiet, superseded, clearedPending,
                   armedBy, firesSinceArm>>

\* One tick of time passes; a due timer runs before time moves on.
Tick ==
    /\ bar.timer # 0
    /\ bar' = [bar EXCEPT !.timer = IF @ > 0 THEN @ - 1 ELSE @]
    /\ last' = [op |-> "tick", arg |-> undefined]
    /\ out' = <<>>
    /\ sinceEmit' = Min(sinceEmit + 1, Far)
    /\ sinceFire' = Min(sinceFire + 1, Far)
    /\ sinceEdit' = Min(sinceEdit + 1, Long)
    /\ discarded' = FALSE
    /\ UNCHANGED <<ctx, aux>>
    /\ UNCHANGED <<props, fireGap, emitsSinceEdit, editPending, quiet, superseded,
                   clearedPending, armedBy, firesSinceArm>>

Next ==
    \/ \E v \in Strings : Edit(v)
    \/ Fire
    \/ Clear
    \/ \E dv \in Values : ExternalChange(dv)
    \/ \E key \in Keys : KeyDown(key)
    \/ Tick

Spec == Init /\ [][Next]_vars

\* ---- bars under one shared search context --------------------------------
\* The context exists with some term; the bars mount one after the other.
InitCtx ==
    /\ term \in Terms
    /\ mounted = {}
    /\ bars = [j \in Bars |-> Unmounted]
    /\ inputs = [j \in Bars |-> [onChange |-> FALSE]]
    /\ auto = NoAuto /\ stopped = FALSE
    /\ bar = SearchBarBase("")
    /\ props = [onSubmit |-> FALSE, onKeyDown |-> FALSE, onClear |-> FALSE,
                clearButton |-> TRUE]
    /\ out = <<>>
    /\ last = [op |-> "mount", arg |-> undefined]
    /\ HistInit

\* a step of the context that made the calls o and left the bars bs
Commit(bs, o) ==
    /\ out' = o
    /\ term' = applySetTerm(term, o)
    /\ bars' = render(bs, mounted', term')

\* <SearchBarInput value={v} onChange={...} /> mounts: it renders its
\* SearchBarBase with the current term, then the effect of useSearchBarState runs
Mount(i, v, oc) ==
    /\ i \notin mounted
    /\ mounted' = mounted \cup {i}
    /\ inputs' = [inputs EXCEPT ![i] = [onChange |-> oc]]
    /\ Commit([bars EXCEPT ![i] = SearchBarBase(term)], useSearchBarState(withDefault(v)))
    /\ UNCHANGED <<base, last, hist, aux>>

CtxEdit(i, v) ==
    /\ i \in mounted
    /\ v # displayed(bars[i])
    /\ bars' = [bars EXCEPT ![i] = handleChange(@, v)]
    /\ out' = <<>>
    /\ UNCHANGED <<term, mounted, inputs, base, last, hist, aux>>

CtxFire(i) ==
    /\ bars[i].timer = 0
    /\ UNCHANGED <<mounted, inputs>>
    /\ Commit([bars EXCEPT ![i].timer = Idle], forward(inputs[i], debounced(bars[i])))
    /\ UNCHANGED <<base, last, hist, aux>>

CtxClear(i) ==
    /\ i \in mounted
    /\ UNCHANGED <<mounted, inputs>>
    /\ Commit(bars, forward(inputs[i], handleClear))
    /\ UNCHANGED <<base, last, hist, aux>>

\* The caller renders bar i with a value prop v other than the previous one,
\* so that the effect of useSearchBarState runs again.  The previous prop is
\* not kept: the bar does nothing with it, and a change to v can follow any
\* earlier prop by way of a change to the empty string, which has no effect.
CallerValue(i, v) ==
    /\ i \in mounted
    /\ UNCHANGED <<mounted, inputs>>
    /\ Commit(bars, useSearchBarState(withDefault(v)))
    /\ UNCHANGED <<base, last, hist, aux>>

\* another consumer of the context writes the term
SetTerm(v) ==
    /\ v # term
    /\ term' = v
    /\ bars' = render(bars, mounted, v)
    /\ out' = <<>>
    /\ UNCHANGED <<mounted, inputs, base, last, hist, aux>>

CtxTick ==
    /\ \A i \in Bars : bars[i].timer # 0
    /\ bars' = [i \in Bars |-> [bars[i] EXCEPT !.timer = IF @ > 0 THEN @ - 1 ELSE @]]
    /\ out' = <<>>
    /\ UNCHANGED <<term, mounted, inputs, base, last, hist, aux>>

NextCtx ==
    \/ \E i \in Bars, v \in Terms \cup {undefined}, oc \in BOOLEAN : Mount(i, v, oc)
    \/ \E i \in Bars, v \in Terms : CtxEdit(i, v)
    \/ \E i \in Bars : CtxFire(i)
    \/ \E i \in Bars : CtxClear(i)
    \/ \E i \in Bars, v \in Terms \cup {undefined} : CallerValue(i, v)
    \/ \E v \in Terms : SetTerm(v)
    \/ CtxTick

SpecCtx == InitCtx /\ [][NextCtx]_vars

\* ---- the shared context once the users stop ---------------------------------
\* Bars without an override onChange.  The users and callers act until they
\* stop; the timeouts set by useDebounce keep running: the clock advances and
\* a timeout that is due runs its callback.
Stop ==
    /\ ~stopped
    /\ stopped' = TRUE
    /\ UNCHANGED <<ctx, base, auto, out, last, hist>>

NextQuiet ==
    \/ ~stopped /\ \E i \in Bars, v \in Terms \cup {undefined} : Mount(i, v, FALSE)
    \/ ~stopped /\ \E i \in Bars, v \in Terms : CtxEdit(i, v)
    \/ ~stopped /\ \E i \in Bars : CtxClear(i)
    \/ ~stopped /\ \E i \in Bars, v \in Terms \cup {undefined} : CallerValue(i, v)
    \/ ~stopped /\ \E v \in Terms : SetTerm(v)
    \/ Stop
    \/ \E i \in Bars : CtxFire(i)
    \/ CtxTick

SpecQuiet ==
    /\ InitCtx /\ [][NextQuiet]_vars
    /\ WF_vars(CtxTick) /\ \A i \in Bars : WF_vars(CtxFire(i))

\* ---- one SearchBarAutocomplete -------------------------------------------
\* The autocomplete mounts with inputProps.value v in a context holding t.
InitAuto ==
    /\ auto \in AutoProps
    /\ \E t \in Terms, v \in Terms \cup {undefined} :
          /\ term = applySetTerm(t, useSearchBarState(v))
          /\ bar = syncDefaultValue(SearchBarBase(t), term)
    /\ props \in PropSets /\ ~props.onClear /\ props.clearButton = auto.clearButton
    /\ mounted = {} /\ bars = <<>> /\ inputs = <<>>
    /\ stopped = FALSE
    /\ out = <<>>
    /\ last = [op |-> "mount", arg |-> undefined]
    /\ HistInit

\* a step of the autocomplete that made the calls o and left the bar b
AutoCommit(b, o) ==
    /\ out' = o
    /\ term' = applySetTerm(term, o)
    /\ bar' = syncDefaultValue(b, term')
    /\ UNCHANGED <<props, mounted, bars, inputs, stopped, last, hist>>

AutoEdit(v) ==
    /\ v # displayed(bar)
    /\ bar' = handleChange(bar, v)
    /\ out' = <<>>
    /\ UNCHANGED <<term, auto, props, mounted, bars, inputs, stopped, last, hist>>

AutoFire ==
    /\ bar.timer = 0
    /\ AutoCommit([bar EXCEPT !.timer = Idle], autoForward(auto, debounced(bar)))
    /\ UNCHANGED auto

\* the Clear button can be clicked when it is the trailing decoration
AutoClear ==
    /\ trailing(auto) = "ClearButton"
    /\ AutoCommit(bar, autoForward(auto, handleClear))
    /\ UNCHANGED auto

AutoKeyDown(key) ==
    /\ AutoCommit(bar, autoForward(auto, handleKeyDown(props, key)))
    /\ UNCHANGED auto

\* the caller renders the autocomplete with another loading flag
SetLoading(l) ==
    /\ l # auto.loading
    /\ auto' = [auto EXCEPT !.loading = l]
    /\ out' = <<>>
    /\ UNCHANGED <<term, bar, props, mounted, bars, inputs, stopped, last, hist>>

AutoTick ==
    /\ bar.timer # 0
    /\ bar' = [bar EXCEPT !.timer = IF @ > 0 THEN @ - 1 ELSE @]
    /\ out' = <<>>
    /\ UNCHANGED <<term, auto, props, mounted, bars, inputs, stopped, last, hist>>

NextAuto ==
    \/ \E v \in Terms : AutoEdit(v)
    \/ AutoFire
    \/ AutoClear
    \/ \E key \in Keys : AutoKeyDown(key)
    \/ \E l \in BOOLEAN : SetLoading(l)
    \/ AutoTick

SpecAuto == InitAuto /\ [][NextAuto]_vars

\* ---- claims about SearchBarBase (checked under Spec) ---------------------

\* C1: after a sequence of keystrokes that leaves the local text T, with no
\* further keystroke (and no clear or overriding value change): the timer
\* that fires makes the first onChange call since the last keystroke and
\* passes T, and once more than debounceTime has passed exactly one call has
\* been made.
C1_ExactlyOnce ==
    quiet =>
        /\ last.op = "fire" => (emitsSinceEdit = 1 /\ out = <<Call("onChange", bar.value)>>)
        /\ sinceEdit = Long => emitsSinceEdit = 1
        /\ emitsSinceEdit <= 1
C1_Witness ==
    /\ quiet /\ sinceEdit = Long /\ superseded = "c"
    /\ emitsSinceEdit = 1 /\ bar.value = "ca" /\ bar.timer = Idle

\* C2: when a keystroke follows an earlier keystroke whose emission is still
\* pending, the timer that then fires delivers the later value only; the
\* earlier value is not passed to onChange.
C2_Superseded ==
    (last.op = "fire" /\ superseded # undefined) =>
        /\ superseded \notin Args(out, "onChange")
        /\ out = <<Call("onChange", bar.value)>>
C2_Witness ==
    /\ last.op = "fire" /\ superseded = "c"
    /\ out = <<Call("onChange", "ca")>> /\ bar.defaultValue = "c"

\* C3 (as claimed): a clear leaves the local value empty and has invoked
\* onChange with the empty string.
C3_ClearResetsLocal ==
    last.op = "clear" => (bar.value = "" /\ out = <<Call("onChange", "")>>)

\* C4 (as claimed): two onChange invocations are never less than
\* debounceTime apart.
C4_OncePerWindow ==
    [][Count(out', "onChange") > 0 => sinceEmit >= DebounceTicks]_vars
\* C4 (amended): two timer-driven onChange invocations are never less than
\* debounceTime apart; invocations made by clear are not debounced.
C4_TimerSpacing == fireGap >= DebounceTicks
\* two timer-driven calls exactly debounceTime apart, a clear's call in between
C4_Witness ==
    /\ last.op = "fire" /\ fireGap = DebounceTicks /\ emitsSinceEdit = 2 /\ editPending = FALSE
    /\ quiet = FALSE /\ sinceEdit = DebounceTicks

\* C5 (as claimed): every onChange invocation carries the current local value.
C5_NoStaleValue == \A x \in Args(out, "onChange") : x = bar.value

\* C6: after the value prop changes to another value, the local value is the
\* new value prop, whatever was typed and not yet emitted.
C6_ExternalOverrides ==
    last.op = "value" => (bar.value = last.arg /\ bar.defaultValue = last.arg)
C6_Witness ==
    /\ last.op = "value" /\ discarded /\ bar.value = "" /\ bar.timer = DebounceTicks

\* C7: a key-down invokes onSubmit exactly once if it was supplied and the key
\* is Enter, and never otherwise; it invokes onKeyDown once if supplied, and
\* nothing else.
C7_Submit ==
    last.op = "keyDown" =>
        /\ Count(out, "onSubmit") = IF props.onSubmit /\ last.arg = "Enter" THEN 1 ELSE 0
        /\ Count(out, "onKeyDown") = IF props.onKeyDown THEN 1 ELSE 0
        /\ Len(out) = Count(out, "onSubmit") + Count(out, "onKeyDown")
C7_Witness ==
    /\ last.op = "keyDown" /\ last.arg = "Enter" /\ props.onSubmit
    /\ out = <<Call("onSubmit", undefined)>>
    /\ bar.timer > 0 /\ editPending

\* C10 (as claimed): a clear invokes onClear when it was supplied.
C10_OnClearInvoked ==
    (last.op = "clear" /\ props.onClear) => Count(out, "onClear") = 1

\* C13 (as claimed): after a clear on a pending edit, with no further edit or
\* value change by the caller, the timer does not deliver the text typed
\* before the clear: what it passes to onChange is the empty string.
C13_ClearWins ==
    (clearedPending /\ last.op = "fire") => out = <<Call("onChange", "")>>

\* C14 (as claimed): a bar given no value never passes an absent (undefined)
\* value to onChange; without an edit it passes the empty string.
C14_EmptyWhenAbsent ==
    bar.defaultValue = undefined =>
        /\ undefined \notin Args(out, "onChange")
        /\ (armedBy # "edit" /\ last.op = "fire") => out = <<Call("onChange", "")>>

\* C15: the timer armed by the mount or by a value change of the caller fires
\* once, when it is due, and passes onChange the value the caller imposed.
C15_EchoOnce ==
    armedBy \in {"mount", "value"} =>
        /\ firesSinceArm = IF bar.timer = Idle THEN 1 ELSE 0
        /\ bar.value = bar.defaultValue
        /\ last.op = "fire" => out = <<Call("onChange", bar.defaultValue)>>
C15_Witness ==
    /\ armedBy = "value" /\ last.op = "fire" /\ firesSinceArm = 1
    /\ out = <<Call("onChange", "c")>> /\ bar.timer = Idle

\* ---- claims about the context-backed bars (checked under SpecCtx) --------

\* what a bar that emits v does: its caller's onChange and nothing else when
\* one was supplied, otherwise setTerm
EmitsTo(i, v) ==
    IF inputs[i].onChange
    THEN out' = <<Call("onChange", v)>> /\ term' = term
    ELSE out' = <<Call("setTerm", v)>> /\ term' = v

\* C8: with an onChange supplied, every debounced emission and every clear
\* calls it and leaves the shared term unchanged; without one, the same
\* events write the value into the shared term.
C8_Override ==
    [][\A i \in Bars : /\ CtxFire(i) => EmitsTo(i, bars[i].value)
                       /\ CtxClear(i) => EmitsTo(i, "")]_vars
C8_Witness ==
    /\ out = <<Call("onChange", "c")>> /\ term = ""
    /\ \E i \in mounted : inputs[i].onChange /\ bars[i].value = "c" /\ bars[i].timer = Idle

\* C9 (as claimed): after the caller's value of a bar changes to V, the
\* shared term is V, for every V including the empty string.
C9_CallerOverrides ==
    [][\A v \in Terms : term' = v \/ \A i \in Bars : ~CallerValue(i, v)]_vars
\* C9 (amended): a non-empty caller value seeds the term at mount and
\* overrides it when it changes; a change to the empty string (or to no
\* value) leaves the term as it is.
C9_NonEmptyOverrides ==
    [][\A v \in Terms \cup {undefined} :
         \/ term' = IF v \in {"", undefined} THEN term ELSE v
         \/ \A i \in Bars : ~(CallerValue(i, v) \/ \E oc \in BOOLEAN : Mount(i, v, oc))]_vars
\* useSearchBarState has set the term to the caller's value "c" with every bar
\* mounted, and every bar shows it (a setTerm call made by a firing bar
\* leaves that bar's timer idle)
C9_Witness ==
    /\ out = <<Call("setTerm", "c")>> /\ term = "c"
    /\ mounted = Bars
    /\ \A i \in Bars : bars[i].value = "c" /\ bars[i].timer = DebounceTicks

\* C12 (checked under SpecQuiet, whose bars have no override onChange): with
\* no bar given an override onChange, every mounted bar whose timer is idle
\* displays the shared term.
C12_SingleTerm ==
    (\A i \in mounted : ~inputs[i].onChange) =>
        \A i \in mounted : bars[i].timer = Idle => bars[i].value = term
\* all bars are mounted and idle after an edit of "c" went through the term
C12_Witness ==
    /\ mounted = Bars /\ \A i \in Bars : ~inputs[i].onChange
    /\ term = "c" /\ out = <<Call("setTerm", "c")>>
    /\ \A i \in Bars : bars[i].timer = Idle /\ bars[i].value = "c"

\* no emission is pending on any bar
Quiescent == \A i \in Bars : bars[i].timer = Idle

\* C16: once the users stop, the bars of a context reach a state where no
\* timer is armed, and from then on no timer is armed again and the term
\* stays; a timer that fires on a value the term imposed leaves the term.
C16_Quiesces ==
    /\ stopped ~> Quiescent
    /\ [][(stopped /\ Quiescent) => (Quiescent' /\ term' = term)]_vars
    /\ [][\A i \in Bars : \/ term' = term
                          \/ bars[i].value # bars[i].defaultValue
                          \/ ~CtxFire(i)]_vars
C16_Witness ==
    /\ stopped /\ Quiescent /\ mounted = Bars
    /\ term = "c" /\ out = <<Call("setTerm", "c")>>
    /\ \A i \in Bars : bars[i].value = "c"

\* ---- claims about SearchBarAutocomplete (checked under SpecAuto) ---------

\* C11 (as claimed): the trailing decoration of the input is the loading
\* indicator when loading is set and the caller's endAdornment otherwise,
\* whatever clearButton is.
C11_TrailingDecoration ==
    trailing(auto) = IF auto.loading THEN "CircularProgress" ELSE auto.endAdornment

\* C17: a key-down event, Enter included, leaves the local value, the pending
\* timer and the shared term as they are and calls neither onChange nor
\* setTerm, so a pending emission is neither flushed nor cancelled.
C17_KeyDownFrame ==
    [][\A key \in Keys :
          \/ /\ bar' = bar /\ term' = term
             /\ Count(out', "onChange") = 0 /\ Count(out', "setTerm") = 0
          \/ ~AutoKeyDown(key)]_vars
C17_Witness ==
    /\ out = <<Call("onSubmit", undefined)>>
    /\ bar.timer = 0 /\ bar.value = "c" /\ term = ""

\* C18: a keystroke sets the local value and arms the timer and does nothing
\* else at that moment: no onChange, no write of the shared term.
C18_KeystrokeFrame ==
    [][\A v \in Terms :
          \/ /\ bar'.value = v /\ bar'.timer = DebounceTicks
             /\ bar'.defaultValue = bar.defaultValue
             /\ term' = term /\ out' = <<>>
          \/ ~AutoEdit(v)]_vars
C18_Witness ==
    /\ bar.value = "c" /\ bar.defaultValue = "" /\ term = ""
    /\ bar.timer = DebounceTicks /\ out = <<>> /\ ~props.onSubmit

====
